---- MODULE Spec2Model ----
(***************************************************************************)
(* Model of src/scraper.py: the four field extractors (get_title,          *)
(* get_price, get_rating, get_seller_name), fetch_product_data, and the    *)
(* __main__ block (link collection, fetch loop, DataFrame filtering and    *)
(* the CSV write).                                                         *)
(*                                                                         *)
(* Strings of the program are sequences of one-character strings, so that  *)
(* strip, re.sub, count, replace, "in" and "+" are computed character by   *)
(* character as Python computes them.                                      *)
(***************************************************************************)
EXTENDS Naturals, Integers, Sequences, FiniteSets, TLC

VARIABLES pc, page, product_data, search_page, anchors, product_links,
          todo, data, amazon_df, csv, writes, fetched

vars == <<pc, page, product_data, search_page, anchors, product_links,
          todo, data, amazon_df, csv, writes, fetched>>

----------------------------------------------------------------------------
(* Bounds of the model *)

\* longest enumerated element text
MaxLen == 2
\* most anchors on the search page
MaxAnchors == 3

----------------------------------------------------------------------------
(* Python values *)

\* Python None where a string is expected (href attribute, find() text)
None == <<"None">>
\* soup.find(...) found nothing
NoElem == [name |-> "None"]
\* numpy.nan in a DataFrame cell
NaN == <<"nan">>

IsSpace(c) == c \in {" ", "\t", "\n", "\r"}
IsDigit(c) == c \in {"0", "1", "2", "3", "4", "5", "6", "7", "8", "9"}

\* str.strip(): leading whitespace
RECURSIVE lstrip(_)
lstrip(s) ==
    IF s = <<>> THEN s
    ELSE IF IsSpace(Head(s)) THEN lstrip(Tail(s)) ELSE s

\* str.strip(): trailing whitespace
RECURSIVE rstrip(_)
rstrip(s) ==
    IF s = <<>> THEN s
    ELSE IF IsSpace(s[Len(s)]) THEN rstrip(SubSeq(s, 1, Len(s) - 1)) ELSE s

strip(s) == rstrip(lstrip(s))

\* re.sub(r'[^\d.]', '', price): drop every character that is neither a
\* digit nor a decimal point
re_sub(s) == SelectSeq(s, LAMBDA c : IsDigit(c) \/ c = ".")

\* str.count(ch)
count(s, ch) == Cardinality({i \in 1..Len(s) : s[i] = ch})

\* str.replace(ch, '', n): remove the first n occurrences of ch
RECURSIVE replace(_, _, _)
replace(s, ch, n) ==
    IF n = 0 \/ s = <<>> THEN s
    ELSE IF Head(s) = ch THEN replace(Tail(s), ch, n - 1)
    ELSE <<Head(s)>> \o replace(Tail(s), ch, n)

\* sub in s, for strings
RECURSIVE contains(_, _)
contains(s, sub) ==
    IF Len(s) < Len(sub) THEN FALSE
    ELSE IF SubSeq(s, 1, Len(sub)) = sub THEN TRUE
    ELSE contains(Tail(s), sub)

----------------------------------------------------------------------------
(* Sentinels and literals of the source *)

TitleNotFound == <<"T","i","t","l","e"," ","n","o","t"," ","f","o","u","n","d">>
PriceNotFound == <<"P","r","i","c","e"," ","n","o","t"," ","f","o","u","n","d">>
RatingNotFound == <<"R","a","t","i","n","g"," ","n","o","t"," ","f","o","u","n","d">>
UnknownSeller == <<"U","n","k","n","o","w","n"," ","S","e","l","l","e","r">>

Origin == <<"h","t","t","p","s",":","/","/","w","w","w",".","a","m","a","z","o","n",".","i","n">>
DpMarker == <<"/","d","p","/">>
CardClass == "a-link-normal s-no-outline"

Columns == {"Product Name", "Price", "Rating", "Seller Name"}

----------------------------------------------------------------------------
(* Parsed markup: a soup is the sequence of its elements in document      *)
(* order; an element is [name, attr, val, text].                           *)

\* find that matches the attribute on any tag
find_any_tag(soup, name, attr, val) ==
    LET hits == SelectSeq(soup, LAMBDA e : e.attr = attr /\ e.val = val)
    IN  IF hits = <<>> THEN NoElem ELSE Head(hits)

\* soup.find(name, attrs={attr: val}): the first matching element, or None
find(soup, name, attr, val) ==
    LET hits == SelectSeq(soup, LAMBDA e : e.name = name /\ e.attr = attr /\ e.val = val)
    IN  IF hits = <<>> THEN NoElem ELSE Head(hits)

get_title(soup) ==
    LET e == find(soup, "span", "id", "productTitle")
    IN  IF e = NoElem THEN TitleNotFound ELSE strip(e.text)

\* the composite price without the collapse of the decimal points
composite_no_collapse(whole_price, fraction_price) ==
    re_sub(whole_price \o <<".">> \o fraction_price)

\* the composite price keeping the first decimal point instead of the last
composite_keep_first(whole_price, fraction_price) ==
    LET price == re_sub(whole_price \o <<".">> \o fraction_price)
        first == CHOOSE i \in 1..Len(price) :
                     price[i] = "." /\ \A j \in 1..(i - 1) : price[j] # "."
    IN  IF count(price, ".") <= 1 THEN price
        ELSE SubSeq(price, 1, first) \o
             SelectSeq(SubSeq(price, first + 1, Len(price)), LAMBDA c : c # ".")

\* lines 37-42: the composite price from the two parts' stripped texts
composite_price(whole_price, fraction_price) ==
    LET price == re_sub(whole_price \o <<".">> \o fraction_price)
    IN  IF count(price, ".") <= 1 THEN price
        ELSE replace(price, ".", count(price, ".") - 1)

\* get_price with the deal price tried before the regular price
get_price_deal_first(soup) ==
    LET our == find(soup, "span", "id", "priceblock_ourprice")
        deal == find(soup, "span", "id", "priceblock_dealprice")
        sale == find(soup, "span", "id", "priceblock_saleprice")
        whole == find(soup, "span", "class", "a-price-whole")
        fraction == find(soup, "span", "class", "a-price-fraction")
    IN  IF deal # NoElem THEN strip(deal.text)
        ELSE IF our # NoElem THEN strip(our.text)
        ELSE IF sale # NoElem THEN strip(sale.text)
        ELSE IF whole = NoElem THEN PriceNotFound
        ELSE IF fraction = NoElem THEN PriceNotFound
        ELSE composite_price(strip(whole.text), strip(fraction.text))

\* get_price with a missing fraction part read as an empty fraction
get_price_whole_only(soup) ==
    LET our == find(soup, "span", "id", "priceblock_ourprice")
        deal == find(soup, "span", "id", "priceblock_dealprice")
        sale == find(soup, "span", "id", "priceblock_saleprice")
        whole == find(soup, "span", "class", "a-price-whole")
        fraction == find(soup, "span", "class", "a-price-fraction")
    IN  IF our # NoElem THEN strip(our.text)
        ELSE IF deal # NoElem THEN strip(deal.text)
        ELSE IF sale # NoElem THEN strip(sale.text)
        ELSE IF whole = NoElem THEN PriceNotFound
        ELSE IF fraction = NoElem THEN composite_price(strip(whole.text), <<>>)
        ELSE composite_price(strip(whole.text), strip(fraction.text))

\* get_price with the numeric clean-up applied in every branch
get_price_clean_all(soup) ==
    LET our == find(soup, "span", "id", "priceblock_ourprice")
        deal == find(soup, "span", "id", "priceblock_dealprice")
        sale == find(soup, "span", "id", "priceblock_saleprice")
        whole == find(soup, "span", "class", "a-price-whole")
        fraction == find(soup, "span", "class", "a-price-fraction")
    IN  IF our # NoElem THEN re_sub(strip(our.text))
        ELSE IF deal # NoElem THEN re_sub(strip(deal.text))
        ELSE IF sale # NoElem THEN re_sub(strip(sale.text))
        ELSE IF whole = NoElem THEN PriceNotFound
        ELSE IF fraction = NoElem THEN PriceNotFound
        ELSE composite_price(strip(whole.text), strip(fraction.text))

get_price(soup) ==
    LET our == find(soup, "span", "id", "priceblock_ourprice")
        deal == find(soup, "span", "id", "priceblock_dealprice")
        sale == find(soup, "span", "id", "priceblock_saleprice")
        whole == find(soup, "span", "class", "a-price-whole")
        fraction == find(soup, "span", "class", "a-price-fraction")
    IN  IF our # NoElem THEN strip(our.text)
        ELSE IF deal # NoElem THEN strip(deal.text)
        ELSE IF sale # NoElem THEN strip(sale.text)
        ELSE IF whole = NoElem THEN PriceNotFound
        ELSE IF fraction = NoElem THEN PriceNotFound
        ELSE composite_price(strip(whole.text), strip(fraction.text))

get_rating(soup) ==
    LET e == find(soup, "span", "class", "a-icon-alt")
    IN  IF e = NoElem THEN RatingNotFound ELSE strip(e.text)

get_seller_name(soup) ==
    LET e == find(soup, "a", "id", "sellerProfileTriggerId")
    IN  IF e = NoElem THEN UnknownSeller ELSE strip(e.text)

\* lines 80-91: the record built from a parsed product page
extract_record(soup) ==
    [c \in Columns |->
        CASE c = "Product Name" -> get_title(soup)
          [] c = "Price" -> get_price(soup)
          [] c = "Rating" -> get_rating(soup)
          [] c = "Seller Name" -> get_seller_name(soup)]

----------------------------------------------------------------------------
(* Inputs: product pages *)

Alphabet == {"1", "2", ".", ",", " "}
Texts == UNION {[1..n -> Alphabet] : n \in 0..MaxLen}
Opt(S) == S \cup {None}

\* element texts taken from the scenarios of the specification
DealExample == <<" ","1",",","2","9","9",".","0","0"," ">>
WholeExample == <<"1","2",".","9","9">>
FractionExample == <<"0","0">>
Samples == {DealExample, <<"2">>}

\* one element of a page, when its text is given
El(name, attr, val, t) ==
    IF t = None THEN <<>> ELSE <<[name |-> name, attr |-> attr, val |-> val, text |-> t]>>

\* elements that carry a locator's attribute on another tag
Decoys ==
    El("div", "id", "productTitle", <<"2">>) \o
    El("div", "id", "priceblock_ourprice", <<"2">>) \o
    El("div", "class", "a-icon-alt", <<"2">>) \o
    El("span", "id", "sellerProfileTriggerId", <<"2">>)

\* BeautifulSoup(response.text, 'html.parser') of a page holding these elements
MkSoup(f) ==
    (IF f.decoy THEN Decoys ELSE <<>>) \o
    El("span", "id", "productTitle", f.title) \o
    El("span", "id", "priceblock_ourprice", f.our) \o
    El("span", "id", "priceblock_dealprice", f.deal) \o
    El("span", "id", "priceblock_saleprice", f.sale) \o
    El("span", "class", "a-price-whole", f.whole) \o
    El("span", "class", "a-price-fraction", f.fraction) \o
    El("span", "class", "a-icon-alt", f.rating) \o
    El("a", "id", "sellerProfileTriggerId", f.seller)

Blank ==
    [decoy |-> FALSE, title |-> None, our |-> None, deal |-> None, sale |-> None,
     whole |-> None, fraction |-> None, rating |-> None, seller |-> None]

\* every combination of present and absent price elements
PresencePage(soup) ==
    \E o \in Opt(Samples), d \in Opt(Samples), s \in Opt(Samples),
       w \in Opt(Samples), f \in Opt(Samples), b \in BOOLEAN :
        soup = MkSoup([Blank EXCEPT !.our = o, !.deal = d, !.sale = s,
                                    !.whole = w, !.fraction = f, !.decoy = b])

\* only the whole and fraction parts, with any text
CompositePage(soup) ==
    \E w \in Opt(Texts \cup {WholeExample}), f \in Opt(Texts \cup {FractionExample}) :
        soup = MkSoup([Blank EXCEPT !.whole = w, !.fraction = f])

\* one identifier-based price element with any text, or two of them
IdentPage(soup) ==
    \/ \E k \in {"our", "deal", "sale"}, t \in Texts,
          w \in Opt({<<"2">>}), f \in Opt({<<"2">>}) :
           soup = MkSoup([Blank EXCEPT ![k] = t, !.whole = w, !.fraction = f])
    \/ \E t \in Opt(Texts), d \in Opt(Texts), s \in Opt({<<"2">>}) :
           soup = MkSoup([Blank EXCEPT !.our = t, !.deal = d, !.sale = s])

\* the single-step fields, one of them with any text
SinglePage(soup) ==
    \/ \E k \in {"title", "rating", "seller"}, t \in Opt(Texts), b \in BOOLEAN :
           soup = MkSoup([Blank EXCEPT ![k] = t, !.decoy = b])
    \/ \E t \in Opt(Samples), r \in Opt(Samples), s \in Opt(Samples), b \in BOOLEAN :
           soup = MkSoup([Blank EXCEPT !.title = t, !.rating = r, !.seller = s,
                                       !.decoy = b])

\* the product pages served during a run
ProductPages ==
    {MkSoup(f) : f \in
        {Blank,
         [Blank EXCEPT !.title = <<" ">>],
         [Blank EXCEPT !.title = <<"1">>, !.rating = <<"2">>],
         [Blank EXCEPT !.title = <<"1">>, !.our = <<>>, !.seller = <<"2">>]}}

----------------------------------------------------------------------------
(* Inputs: the search page and the responses *)

HrefA == <<"/","d","p","/","A">>
HrefAQuery == <<"/","d","p","/","A","?","r">>
HrefOther == <<"/","g","p","/","A">>
Hrefs == {None, HrefA, HrefAQuery, HrefOther}

Anchors == {[name |-> "a", class |-> c, href |-> h] : c \in {CardClass, "a-link-normal"}, h \in Hrefs}
SearchPages == UNION {[1..n -> Anchors] : n \in 0..MaxAnchors}

\* what requests.get does for one product URL: it raises exc, or answers
\* with a status and a body
Responses ==
    {[exc |-> "ConnectionError", status |-> 0, soup |-> <<>>],
     [exc |-> "none", status |-> 404, soup |-> <<>>]}
    \cup {[exc |-> "none", status |-> 200, soup |-> p] : p \in ProductPages}

----------------------------------------------------------------------------
(* fetch_product_data *)

\* the result of a call: a returned value, a returned None, or an exception
\* that leaves the function
Return(v) == [raised |-> "none", isNone |-> FALSE, value |-> v]
ReturnNone == [raised |-> "none", isNone |-> TRUE, value |-> <<>>]
Propagate(e) == [raised |-> e, isNone |-> TRUE, value |-> <<>>]

\* lines 73-75: the exception requests.get or raise_for_status raises
Raised(resp) ==
    IF resp.exc # "none" THEN resp.exc
    ELSE IF resp.status >= 400 /\ resp.status < 600 THEN "HTTPError"
    ELSE "none"

\* an except clause that catches the status error only
IsHTTPErrorOnly(e) == e = "HTTPError"

\* line 92: the classes except requests.exceptions.RequestException catches
IsRequestException(e) == e \in {"ConnectionError", "Timeout", "HTTPError"}

fetch_product_data(resp) ==
    LET e == Raised(resp)
    IN  IF e = "none" THEN Return(extract_record(resp.soup))
        ELSE IF IsRequestException(e) THEN ReturnNone
        ELSE Propagate(e)

----------------------------------------------------------------------------
(* The field extractors applied to one parsed page *)

EmptyData == [c \in Columns |-> <<>>]
NoCsv == [header |-> <<>>, rows |-> <<>>]

InitExtract ==
    /\ pc = "parsed"
    /\ \/ PresencePage(page)
       \/ CompositePage(page)
       \/ IdentPage(page)
       \/ SinglePage(page)
    /\ product_data = ReturnNone
    /\ search_page = <<>>
    /\ anchors = <<>>
    /\ product_links = {}
    /\ todo = {}
    /\ data = EmptyData
    /\ amazon_df = <<>>
    /\ csv = NoCsv
    /\ writes = 0
    /\ fetched = <<>>

Extract ==
    /\ pc = "parsed"
    /\ product_data' = Return(extract_record(page))
    /\ pc' = "extracted"
    /\ UNCHANGED <<page, search_page, anchors, product_links, todo, data,
                   amazon_df, csv, writes, fetched>>

NextExtract == Extract

SpecExtract == InitExtract /\ [][NextExtract]_vars

----------------------------------------------------------------------------
(* The run of __main__ *)

\* line 118: "if link" of an href
truthy(link) == link # None /\ link # <<>>

\* the link test without the product-page marker
is_any_link(link) == truthy(link)

\* line 118: the href names a product page
is_product_link(link) == truthy(link) /\ contains(link, DpMarker)

\* line 120
full_link(link) == Origin \o link

\* line 115: find_all("a", class_=...) keeps the anchors with the card class
find_all(soup) == SelectSeq(soup, LAMBDA a : a.name = "a" /\ a.class = CardClass)

\* lines 131-134: one value appended to each column
append_record(d, rec) == [c \in Columns |-> Append(d[c], rec[c])]

\* line 129: "if product_data"; a dictionary of four keys is truthy
has_data(r) == ~r.isNone

\* a loop that stops one link early
loop_done_early(remaining) == Cardinality(remaining) <= 1

\* line 127: the loop ends when the set is exhausted
loop_done(remaining) == remaining = {}

\* line 137: pd.DataFrame(data), one row per index of the columns
DataFrame(d) == [i \in 1..Len(d["Product Name"]) |-> [c \in Columns |-> d[c][i]]]

\* line 139: replace("", np.nan) in every cell
replace_empty(df) ==
    [i \in 1..Len(df) |-> [c \in Columns |-> IF df[i][c] = <<>> THEN NaN ELSE df[i][c]]]

\* line 141: dropna(subset=['Product Name'])
dropna(df) == SelectSeq(df, LAMBDA row : row["Product Name"] # NaN)

\* line 143: to_csv(index=False, header=True); a NaN cell is written as an
\* empty field
to_csv(df) ==
    [header |-> <<"Product Name", "Price", "Rating", "Seller Name">>,
     rows |-> [i \in 1..Len(df) |-> [c \in Columns |-> IF df[i][c] = NaN THEN <<>> ELSE df[i][c]]]]

Init ==
    /\ pc = "start"
    /\ page = <<>>
    /\ product_data = ReturnNone
    /\ search_page \in SearchPages
    /\ anchors = <<>>
    /\ product_links = {}
    /\ todo = {}
    /\ data = EmptyData
    /\ amazon_df = <<>>
    /\ csv = NoCsv
    /\ writes = 0
    /\ fetched = <<>>

\* lines 113-115: the empty set, and the anchors the loop will visit
FindAll ==
    /\ pc = "start"
    /\ product_links' = {}
    /\ anchors' = find_all(search_page)
    /\ pc' = "collect"
    /\ UNCHANGED <<page, product_data, search_page, todo, data, amazon_df, csv,
                   writes, fetched>>

\* lines 115-121: one iteration of the link loop
CollectLink ==
    /\ pc = "collect"
    /\ anchors # <<>>
    /\ LET link == Head(anchors).href
       IN  product_links' =
               IF is_product_link(link) THEN product_links \cup {full_link(link)}
               ELSE product_links
    /\ anchors' = Tail(anchors)
    /\ UNCHANGED <<pc, page, product_data, search_page, todo, data, amazon_df,
                   csv, writes, fetched>>

\* lines 124-127: the empty columns, and the iteration over the set begins
StartFetch ==
    /\ pc = "collect"
    /\ anchors = <<>>
    /\ data' = EmptyData
    /\ todo' = product_links
    /\ pc' = "fetch"
    /\ UNCHANGED <<page, product_data, search_page, anchors, product_links,
                   amazon_df, csv, writes, fetched>>

\* lines 127-134: one iteration of the fetch loop, on any remaining link
\* (a set has no order), with any response
FetchLink ==
    /\ pc = "fetch"
    /\ ~loop_done(todo)
    /\ \E link \in todo, resp \in Responses :
          LET r == fetch_product_data(resp)
          IN  IF r.raised # "none"
              THEN /\ pc' = "crashed"
                   /\ UNCHANGED <<product_data, todo, data, fetched>>
              ELSE /\ product_data' = r
                   /\ todo' = todo \ {link}
                   /\ data' = IF has_data(r) THEN append_record(data, r.value) ELSE data
                   /\ fetched' = Append(fetched, [url |-> link, exc |-> resp.exc,
                                                  status |-> resp.status])
                   /\ pc' = pc
    /\ UNCHANGED <<page, search_page, anchors, product_links, amazon_df, csv, writes>>

\* line 137
MakeFrame ==
    /\ pc = "fetch"
    /\ loop_done(todo)
    /\ amazon_df' = DataFrame(data)
    /\ pc' = "replace"
    /\ UNCHANGED <<page, product_data, search_page, anchors, product_links, todo,
                   data, csv, writes, fetched>>

\* line 139
Replace ==
    /\ pc = "replace"
    /\ amazon_df' = replace_empty(amazon_df)
    /\ pc' = "dropna"
    /\ UNCHANGED <<page, product_data, search_page, anchors, product_links, todo,
                   data, csv, writes, fetched>>

\* line 141
DropNa ==
    /\ pc = "dropna"
    /\ amazon_df' = dropna(amazon_df)
    /\ pc' = "to_csv"
    /\ UNCHANGED <<page, product_data, search_page, anchors, product_links, todo,
                   data, csv, writes, fetched>>

\* lines 143-144
ToCsv ==
    /\ pc = "to_csv"
    /\ csv' = to_csv(amazon_df)
    /\ writes' = writes + 1
    /\ pc' = "done"
    /\ UNCHANGED <<page, product_data, search_page, anchors, product_links, todo,
                   data, amazon_df, fetched>>

Next ==
    \/ FindAll
    \/ CollectLink
    \/ StartFetch
    \/ FetchLink
    \/ MakeFrame
    \/ Replace
    \/ DropNa
    \/ ToCsv

Spec == Init /\ [][Next]_vars

----------------------------------------------------------------------------
(* Vocabulary of the properties, stated on the markup itself *)

HasEl(soup, name, attr, val) ==
    \E i \in 1..Len(soup) : soup[i].name = name /\ soup[i].attr = attr /\ soup[i].val = val

\* the text of the first such element
TextOf(soup, name, attr, val) ==
    LET i == CHOOSE k \in 1..Len(soup) :
                 /\ soup[k].name = name /\ soup[k].attr = attr /\ soup[k].val = val
                 /\ \A j \in 1..(k - 1) :
                        ~(soup[j].name = name /\ soup[j].attr = attr /\ soup[j].val = val)
    IN  soup[i].text

HasOur == HasEl(page, "span", "id", "priceblock_ourprice")
HasDeal == HasEl(page, "span", "id", "priceblock_dealprice")
HasSale == HasEl(page, "span", "id", "priceblock_saleprice")
HasWhole == HasEl(page, "span", "class", "a-price-whole")
HasFraction == HasEl(page, "span", "class", "a-price-fraction")
OurText == TextOf(page, "span", "id", "priceblock_ourprice")
DealText == TextOf(page, "span", "id", "priceblock_dealprice")
SaleText == TextOf(page, "span", "id", "priceblock_saleprice")
WholeText == TextOf(page, "span", "class", "a-price-whole")
FractionText == TextOf(page, "span", "class", "a-price-fraction")

Extracted == pc = "extracted"
Price == product_data.value["Price"]
CompositeCase == ~HasOur /\ ~HasDeal /\ ~HasSale /\ HasWhole /\ HasFraction

\* the strategy an element belongs to (0: none)
Rank(e) ==
    IF e.name # "span" THEN 0
    ELSE IF e.attr = "id" /\ e.val = "priceblock_ourprice" THEN 1
    ELSE IF e.attr = "id" /\ e.val = "priceblock_dealprice" THEN 2
    ELSE IF e.attr = "id" /\ e.val = "priceblock_saleprice" THEN 3
    ELSE IF e.attr = "class" /\ e.val \in {"a-price-whole", "a-price-fraction"} THEN 4
    ELSE 0

\* the highest-priority strategy with an element on the page
Winner ==
    IF HasOur THEN 1 ELSE IF HasDeal THEN 2 ELSE IF HasSale THEN 3 ELSE 4

\* the page without the elements of every other price strategy
WinnerOnly == SelectSeq(page, LAMBDA e : Rank(e) \in {0, Winner})

DigitChars == {"0", "1", "2", "3", "4", "5", "6", "7", "8", "9"}
Points(s) == {i \in 1..Len(s) : s[i] = "."}
DigitsOf(s) == SelectSeq(s, LAMBDA c : c \in DigitChars)
WhiteChars == {" ", "\t", "\n", "\r"}
OnlySpaces(s) == \A i \in 1..Len(s) : s[i] \in WhiteChars

----------------------------------------------------------------------------
(* Properties of get_price, checked under SpecExtract *)

\* C3: get_price answers from the first of our price, deal price, sale
\* price, whole/fraction whose element exists; the elements of the later
\* strategies do not change the result.
C3_FirstPresentStrategyWins ==
    Extracted =>
        /\ HasOur => Price = strip(OurText)
        /\ ~HasOur /\ HasDeal => Price = strip(DealText)
        /\ ~HasOur /\ ~HasDeal /\ HasSale => Price = strip(SaleText)
        /\ CompositeCase => Price = composite_price(strip(WholeText), strip(FractionText))
        /\ Price = get_price(WinnerOnly)

C3_Witness ==
    /\ Extracted
    /\ ~HasOur /\ HasDeal /\ HasSale /\ HasWhole /\ HasFraction
    /\ DealText # SaleText
    /\ Price = strip(DealText)

\* C4: with no identifier-based price element and both parts present, the
\* price holds only digits and at most one decimal point.
C4_CompositeIsNumeric ==
    Extracted /\ CompositeCase =>
        /\ \A i \in 1..Len(Price) : Price[i] \in DigitChars \cup {"."}
        /\ Cardinality(Points(Price)) <= 1

C4_Witness ==
    /\ Extracted /\ CompositeCase
    /\ \E i \in 1..Len(WholeText) : WholeText[i] = ","
    /\ Points(WholeText) # {}
    /\ Points(FractionText) # {}
    /\ Cardinality(Points(Price)) = 1

\* C5: with no identifier-based price element and not both parts present,
\* the price is exactly "Price not found".
C5_NoStrategyGivesSentinel ==
    Extracted /\ ~HasOur /\ ~HasDeal /\ ~HasSale /\ ~(HasWhole /\ HasFraction) =>
        Price = PriceNotFound

C5_Witness ==
    /\ Extracted
    /\ ~HasOur /\ ~HasDeal /\ ~HasSale /\ HasWhole /\ ~HasFraction
    /\ Price = PriceNotFound

\* C7: an identifier-based answer is the element's text without its leading
\* and trailing whitespace and with every other character kept; the deal
\* price " 1,299.00 " alone gives "1,299.00".
C7_IdentifierTextOnlyTrimmed ==
    Extracted /\ (HasOur \/ HasDeal \/ HasSale) =>
        LET t == IF HasOur THEN OurText ELSE IF HasDeal THEN DealText ELSE SaleText
        IN  /\ \E a \in 0..Len(t) :
                   /\ a + Len(Price) <= Len(t)
                   /\ OnlySpaces(SubSeq(t, 1, a))
                   /\ SubSeq(t, a + 1, a + Len(Price)) = Price
                   /\ OnlySpaces(SubSeq(t, a + Len(Price) + 1, Len(t)))
            /\ Price # <<>> => Price[1] \notin WhiteChars /\ Price[Len(Price)] \notin WhiteChars
            /\ (~HasOur /\ ~HasSale /\ ~HasWhole /\ ~HasFraction /\ t = DealExample)
                   => Price = <<"1", ",", "2", "9", "9", ".", "0", "0">>

C7_Witness ==
    /\ Extracted
    /\ ~HasOur /\ HasDeal /\ ~HasSale /\ ~HasWhole /\ ~HasFraction
    /\ DealText = DealExample
    /\ Price = <<"1", ",", "2", "9", "9", ".", "0", "0">>

\* C10: when whole "." fraction holds more than one decimal point, the price
\* is its digits in their order with the last of its decimal points only;
\* "12.99" and "00" give "1299.00".
C10_LastPointKept ==
    LET raw == WholeText \o <<".">> \o FractionText
        last == CHOOSE i \in Points(raw) : \A j \in Points(raw) : j <= i
    IN  Extracted /\ CompositeCase /\ Cardinality(Points(raw)) > 1 =>
            /\ Price = DigitsOf(SubSeq(raw, 1, last - 1)) \o <<".">> \o
                       DigitsOf(SubSeq(raw, last + 1, Len(raw)))
            /\ (WholeText = WholeExample /\ FractionText = FractionExample)
                   => Price = <<"1", "2", "9", "9", ".", "0", "0">>

C10_Witness ==
    /\ Extracted /\ CompositeCase
    /\ WholeText = WholeExample /\ FractionText = FractionExample
    /\ Price = <<"1", "2", "9", "9", ".", "0", "0">>

----------------------------------------------------------------------------
(* Properties of the single-step extractors, checked under SpecExtract *)

\* C9: get_title, get_rating and get_seller_name return their sentinel when
\* no element matches their locator.
C9_SingleStepSentinels ==
    Extracted =>
        /\ ~HasEl(page, "span", "id", "productTitle")
               => product_data.value["Product Name"] = TitleNotFound
        /\ ~HasEl(page, "span", "class", "a-icon-alt")
               => product_data.value["Rating"] = RatingNotFound
        /\ ~HasEl(page, "a", "id", "sellerProfileTriggerId")
               => product_data.value["Seller Name"] = UnknownSeller

C9_Witness ==
    /\ Extracted
    /\ HasEl(page, "div", "id", "productTitle")
    /\ ~HasEl(page, "span", "id", "productTitle")
    /\ ~HasEl(page, "span", "class", "a-icon-alt")
    /\ ~HasEl(page, "a", "id", "sellerProfileTriggerId")
    /\ product_data.value["Product Name"] = TitleNotFound
    /\ product_data.value["Rating"] = RatingNotFound
    /\ product_data.value["Seller Name"] = UnknownSeller

----------------------------------------------------------------------------
(* Properties of the run, checked under Spec *)

Written == writes >= 1
Collected == pc \notin {"start", "collect"}
LoopOver == pc \in {"replace", "dropna", "to_csv", "done"}

\* the hrefs of the search page that carry the card class and the marker
ProductHrefs ==
    {search_page[i].href : i \in
        {k \in 1..Len(search_page) :
            /\ search_page[k].class = CardClass
            /\ search_page[k].href # None
            /\ \E j \in 1..(Len(search_page[k].href) - 3) :
                   SubSeq(search_page[k].href, j, j + 3) = <<"/", "d", "p", "/">>}}

\* the requests of the log that failed: a transport error or an error status
Failed(entry) == entry.exc # "none" \/ entry.status >= 400
Urls(log) == {log[i].url : i \in 1..Len(log)}
OncePerUrl(log) == \A i, j \in 1..Len(log) : log[i].url = log[j].url => i = j

\* C1: no row of the written file has an empty Product Name or the name
\* sentinel "Title not found".
C1_NoMissingNameWritten ==
    Written =>
        \A i \in 1..Len(csv.rows) :
            csv.rows[i]["Product Name"] \notin {<<>>, TitleNotFound}

\* C2: every URL of the link set adds no record when its request fails and
\* one record otherwise, no failure ends the run, and the run goes on to
\* process every URL and to write the file.
C2_ZeroOrOneRecordPerUrl ==
    /\ pc # "crashed"
    /\ OncePerUrl(fetched)
    /\ Urls(fetched) \subseteq product_links
    /\ \A c \in Columns :
           Len(data[c]) = Cardinality({i \in 1..Len(fetched) : ~Failed(fetched[i])})
    /\ pc = "fetch" => Urls(fetched) \cup todo = product_links
    /\ LoopOver => Urls(fetched) = product_links
    /\ pc = "done" => Written
    /\ pc # "done" => ENABLED Next

C2_Witness ==
    /\ pc = "done"
    /\ Written
    /\ \E i, j \in 1..Len(fetched) :
           i < j /\ fetched[i].exc = "ConnectionError" /\ ~Failed(fetched[j])
    /\ Len(data["Product Name"]) = 1

\* C6: the link set holds exactly one absolute URL for each distinct href
\* among the card-class anchors whose href contains "/dp/".
C6_OneLinkPerDistinctHref ==
    Collected =>
        /\ product_links = {Origin \o h : h \in ProductHrefs}
        /\ Cardinality(product_links) = Cardinality(ProductHrefs)

C6_Witness ==
    /\ Collected
    /\ Len(search_page) = 3
    /\ \A i \in 1..3 : search_page[i].class = CardClass
    /\ search_page[1].href = HrefA
    /\ search_page[2].href = HrefA
    /\ search_page[3].href = HrefAQuery
    /\ Cardinality(product_links) = 2

\* C8: the file is written once, after every URL of the link set has been
\* processed once, and nothing is appended to the table after the write.
C8_WrittenOnceAtTheEnd ==
    /\ [](/\ writes <= 1
          /\ Written => /\ todo = {}
                        /\ Urls(fetched) = product_links
                        /\ OncePerUrl(fetched)
          /\ pc = "done" => writes = 1)
    /\ [][Written => data' = data /\ fetched' = fetched /\ writes' = writes]_vars

C8_Witness ==
    /\ pc = "done"
    /\ writes = 1
    /\ Len(fetched) = 2
    /\ Len(csv.rows) = 1

====
